---- MODULE Spec2Model ----
(***************************************************************************)
(* Model of package maptrans (src/maptrans.go): Translate, the value       *)
(* mappers it is used with, and the verifier IsSimilar.                    *)
(*                                                                         *)
(* A Go map[string]interface{} is a function whose domain is a finite set  *)
(* of strings.  A dynamically typed value is a tagged record.  A Go string *)
(* value is a sequence of one-character strings, so that TrimSpace is      *)
(* computed and not assumed.  Ranging over a Go map visits the keys in an  *)
(* unspecified order: every loop over a map is a nondeterministic choice   *)
(* of the next key among those not yet visited.                            *)
(***************************************************************************)
EXTENDS Integers, Sequences, FiniteSets, TLC

(***************************************************************************)
(* Bounds of the model.                                                    *)
(***************************************************************************)
MaxLen == 2        \* longest array of maps in a source
MaxInt == 120      \* native integers are -MaxInt..MaxInt
MaxDigits == 2     \* longest numeric string in a source

(***************************************************************************)
(* TranslationType (maptrans.go:16-31).                                    *)
(***************************************************************************)
CustomTranslation == 0
MapTranslation == 1
MapArrayTranslation == 2
ModifyTranslation == 3
InsertTranslation == 4

(***************************************************************************)
(* Dynamically typed values (interface{}).                                 *)
(***************************************************************************)
StrV(s) == [tag |-> "str", s |-> s]
IntV(n) == [tag |-> "int", n |-> n]
BoolV(b) == [tag |-> "bool", b |-> b]
MapV(m) == [tag |-> "map", m |-> m]
ArrV(a) == [tag |-> "arr", a |-> a]

EmptyMap == [k \in {} |-> 0]

MapSet(m, k, v) == [x \in (DOMAIN m) \cup {k} |-> IF x = k THEN v ELSE m[x]]

(***************************************************************************)
(* Errors.  kind "None" is the nil error; "Error" is a plain error value   *)
(* made by fmt.Errorf / errors.New or by a caller-supplied function.       *)
(***************************************************************************)
NoErr == [kind |-> "None", name |-> ""]
NewInternalError(reason) == [kind |-> "Internal", name |-> reason]
NewMissingAttributeError(name) == [kind |-> "MissingAttribute", name |-> name]
NewInvalidProp(name) == [kind |-> "InvalidProperty", name |-> name]
PlainError == [kind |-> "Error", name |-> ""]

(***************************************************************************)
(* strings.TrimSpace on a sequence of characters.                          *)
(***************************************************************************)
IsSpace(c) == c = " "

RECURSIVE TrimLeft(_)
TrimLeft(s) ==
    IF s # <<>> /\ IsSpace(Head(s)) THEN TrimLeft(Tail(s)) ELSE s

RECURSIVE TrimRight(_)
TrimRight(s) ==
    IF s # <<>> /\ IsSpace(s[Len(s)])
    THEN TrimRight(SubSeq(s, 1, Len(s) - 1))
    ELSE s

TrimSpace(s) == TrimRight(TrimLeft(s))

(***************************************************************************)
(* MapFunc values.  A mapper returns (value, error); ok = FALSE stands for *)
(* a non-nil error.                                                        *)
(***************************************************************************)
IDMap(src) == [ok |-> TRUE, val |-> src]

StringMap(src) ==
    IF src.tag = "str"
    THEN [ok |-> TRUE, val |-> StrV(TrimSpace(src.s))]
    ELSE [ok |-> FALSE, val |-> StrV(<<>>)]

(***************************************************************************)
(* strconv.FormatUint(i, 10) and strconv.ParseUint(s, 10, 64) on sequences *)
(* of characters.  ParseUint takes one or more decimal digits and nothing  *)
(* else: no sign, no white space; leading zeros are read.  The values of   *)
(* the model are far below 2^64, where ParseUint would report a range      *)
(* error.                                                                  *)
(***************************************************************************)
Digits == <<"0", "1", "2", "3", "4", "5", "6", "7", "8", "9">>

IsDigit(c) == \E i \in 1..10 : Digits[i] = c
DigitVal(c) == (CHOOSE i \in 1..10 : Digits[i] = c) - 1

RECURSIVE FormatUint(_)
FormatUint(i) ==
    IF i < 10 THEN <<Digits[i + 1]>>
    ELSE Append(FormatUint(i \div 10), Digits[(i % 10) + 1])

RECURSIVE ParseDigits(_, _)
ParseDigits(s, n) ==
    IF s = <<>> THEN n
    ELSE ParseDigits(Tail(s), 10 * n + DigitVal(Head(s)))

ParseUint(s) ==
    IF s = <<>> \/ \E i \in 1..Len(s) : ~IsDigit(s[i])
    THEN [ok |-> FALSE, n |-> 0]
    ELSE [ok |-> TRUE, n |-> ParseDigits(s, 0)]

\* maptrans.go:384-411, for an int and for a string
\* (variant: zero is rejected as the negative integers are)
M_IntegerMap(val) ==
    CASE val.tag = "int" ->
            IF val.n <= 0
            THEN [ok |-> FALSE, val |-> StrV(<<>>)]
            ELSE [ok |-> TRUE, val |-> StrV(FormatUint(val.n))]
      [] val.tag = "str" ->
            LET result == ParseUint(val.s) IN
            IF ~result.ok
            THEN [ok |-> FALSE, val |-> StrV(<<>>)]
            ELSE [ok |-> TRUE, val |-> StrV(FormatUint(result.n))]
      [] OTHER -> [ok |-> FALSE, val |-> StrV(<<>>)]
IntegerMap(val) ==
    CASE val.tag = "int" ->
            IF val.n < 0
            THEN [ok |-> FALSE, val |-> StrV(<<>>)]
            ELSE [ok |-> TRUE, val |-> StrV(FormatUint(val.n))]
      [] val.tag = "str" ->
            LET result == ParseUint(val.s) IN
            IF ~result.ok
            THEN [ok |-> FALSE, val |-> StrV(<<>>)]
            ELSE [ok |-> TRUE, val |-> StrV(FormatUint(result.n))]
      [] OTHER -> [ok |-> FALSE, val |-> StrV(<<>>)]

(***************************************************************************)
(* strconv.ParseBool: "1", "t", "T", "TRUE", "true", "True" are true, "0", *)
(* "f", "F", "FALSE", "false", "False" are false, any other string is an   *)
(* error.                                                                  *)
(***************************************************************************)
\* (variant: the strings "T" and "F" are not accepted)
M_ParseBool(str) ==
    CASE str \in {<<"1">>, <<"t">>, <<"T", "R", "U", "E">>,
                  <<"t", "r", "u", "e">>, <<"T", "r", "u", "e">>} ->
            [ok |-> TRUE, b |-> TRUE]
      [] str \in {<<"0">>, <<"f">>, <<"F", "A", "L", "S", "E">>,
                  <<"f", "a", "l", "s", "e">>, <<"F", "a", "l", "s", "e">>} ->
            [ok |-> TRUE, b |-> FALSE]
      [] OTHER -> [ok |-> FALSE, b |-> FALSE]
ParseBool(str) ==
    CASE str \in {<<"1">>, <<"t">>, <<"T">>, <<"T", "R", "U", "E">>,
                  <<"t", "r", "u", "e">>, <<"T", "r", "u", "e">>} ->
            [ok |-> TRUE, b |-> TRUE]
      [] str \in {<<"0">>, <<"f">>, <<"F">>, <<"F", "A", "L", "S", "E">>,
                  <<"f", "a", "l", "s", "e">>, <<"F", "a", "l", "s", "e">>} ->
            [ok |-> TRUE, b |-> FALSE]
      [] OTHER -> [ok |-> FALSE, b |-> FALSE]

\* maptrans.go:355-369
BoolMap(src) ==
    IF src.tag = "bool" THEN [ok |-> TRUE, val |-> src]
    ELSE IF src.tag # "str" THEN [ok |-> FALSE, val |-> StrV(<<>>)]
    ELSE LET result == ParseBool(src.s) IN
         IF ~result.ok THEN [ok |-> FALSE, val |-> BoolV(FALSE)]
         ELSE [ok |-> TRUE, val |-> BoolV(result.b)]

\* Description.MapFunc holds the name of the mapper, "nil" when unset.
ApplyMapFunc(fn, value) ==
    CASE fn = "IDMap" -> IDMap(value)
      [] fn = "StringMap" -> StringMap(value)
      [] fn = "IntegerMap" -> IntegerMap(value)
      [] fn = "BoolMap" -> BoolMap(value)

(***************************************************************************)
(* Caller-supplied ModFunc values, after TestModifyTranslation: a ModFunc  *)
(* gets the source, the destination map and the value, writes into the     *)
(* destination and returns an error.                                       *)
(*   "modSet"  : dst["a"] = value; return nil                              *)
(*   "modFail" : return an error                                           *)
(***************************************************************************)
ModKey == "a"

\* (variant: "modSet" leaves a key that the destination already has)
M_ApplyModFunc(fn, src, dst, value) ==
    CASE fn = "modSet" ->
            [ok |-> TRUE,
             dst |-> IF ModKey \in DOMAIN dst THEN dst
                     ELSE MapSet(dst, ModKey, value)]
      [] fn = "modFail" -> [ok |-> FALSE, dst |-> dst]
ApplyModFunc(fn, src, dst, value) ==
    CASE fn = "modSet" -> [ok |-> TRUE, dst |-> MapSet(dst, ModKey, value)]
      [] fn = "modFail" -> [ok |-> FALSE, dst |-> dst]

(***************************************************************************)
(* Caller-supplied InsertFunc values, after TestInsertTranslation: an      *)
(* InsertFunc gets the source, the destination map and the name of the     *)
(* description entry, and returns (value, error).                          *)
(*   "insName"  : return name                                              *)
(*   "insWrite" : dst["a"] = name; return name   (the test's function      *)
(*                writes into the destination map)                         *)
(*   "insFail"  : return an error                                          *)
(***************************************************************************)
ApplyInsertFunc(fn, src, dst, name) ==
    CASE fn = "insName" ->
            [ok |-> TRUE, dst |-> dst, val |-> StrV(<<name>>)]
      [] fn = "insWrite" ->
            [ok |-> TRUE, dst |-> MapSet(dst, ModKey, StrV(<<name>>)),
             val |-> StrV(<<name>>)]
      [] fn = "insFail" ->
            [ok |-> FALSE, dst |-> dst, val |-> StrV(<<>>)]

(***************************************************************************)
(* Entries of a description map.  An entry is a string ("name":            *)
(* "newName"), a Description, or any other value (which Translate          *)
(* rejects).  A description map is [isNil, m]: Go's nil map has isNil =    *)
(* TRUE and reads as the empty map.                                        *)
(***************************************************************************)
NilDescr == [isNil |-> TRUE, m |-> EmptyMap]
Descr(m) == [isNil |-> FALSE, m |-> m]

Rename(t) ==
    [form |-> "string", TargetName |-> t, Type |-> CustomTranslation,
     MapFunc |-> "nil", ModFunc |-> "nil", InsertFunc |-> "nil",
     SubTranslation |-> NilDescr, Mandatory |-> FALSE]

Description(t, ty, mapf, modf, insf, sub, mand) ==
    [form |-> "Description", TargetName |-> t, Type |-> ty,
     MapFunc |-> mapf, ModFunc |-> modf, InsertFunc |-> insf,
     SubTranslation |-> sub, Mandatory |-> mand]

\* a description value that is neither a string nor a Description
BadEntry ==
    [form |-> "other", TargetName |-> "", Type |-> CustomTranslation,
     MapFunc |-> "nil", ModFunc |-> "nil", InsertFunc |-> "nil",
     SubTranslation |-> NilDescr, Mandatory |-> FALSE]

(***************************************************************************)
(* mapstructure.Decode(value, &[]map[string]interface{}) as Translate and  *)
(* IsSimilar use it: an array of maps decodes to its elements, anything    *)
(* else is an error.                                                       *)
(***************************************************************************)
Decode(value) ==
    IF value.tag = "arr"
    THEN [ok |-> TRUE, maps |-> value.a]
    ELSE [ok |-> FALSE, maps |-> <<>>]

(***************************************************************************)
(* Translate (maptrans.go:131-280).                                        *)
(*                                                                         *)
(* What a Translate call returns is [isNil, res, err]: isNil says that the *)
(* returned map is nil, err = NoErr that the returned error is nil.  What  *)
(* one iteration of a loop does is a step [err, isNil, result]: with err = *)
(* NoErr the loop goes on with result, otherwise the call returns err,     *)
(* with a nil map when isNil and with result otherwise.                    *)
(***************************************************************************)
Ret(res, err) == [isNil |-> FALSE, res |-> res, err |-> err]
RetNil(err) == [isNil |-> TRUE, res |-> EmptyMap, err |-> err]

Cont(result) == [err |-> NoErr, isNil |-> FALSE, result |-> result]
Fail(result, err) == [err |-> err, isNil |-> FALSE, result |-> result]
FailNil(err) == [err |-> err, isNil |-> TRUE, result |-> EmptyMap]

StepRet(st) == IF st.isNil THEN RetNil(st.err) ELSE Ret(st.result, st.err)

\* maptrans.go:139-154, the body of the first loop, for the entry k
\* (variant: looks the mandatory key up in the description, not in src)
M_CheckMandatory(src, description, k) ==
    LET v == description[k] IN
    IF v.form = "string" THEN NoErr
    ELSE IF v.form # "Description" THEN NewInternalError("not Description")
    ELSE IF v.Mandatory /\ k \notin DOMAIN description
         THEN NewMissingAttributeError(k)
         ELSE NoErr
CheckMandatory(src, description, k) ==
    LET v == description[k] IN
    IF v.form = "string" THEN NoErr
    ELSE IF v.form # "Description" THEN NewInternalError("not Description")
    ELSE IF v.Mandatory /\ k \notin DOMAIN src
         THEN NewMissingAttributeError(k)
         ELSE NoErr

\* maptrans.go:180-183
ResolveTarget(md, attr) ==
    [md EXCEPT !.TargetName = IF @ = "" THEN attr ELSE @]

\* maptrans.go:175-183: the description map after the iteration for attr.
\* md is a copy of the Description held in the map (the type assertion
\* yields a value), so that the assignment to md.TargetName leaves the map
\* as it was.
\* (variant: the assignment goes to the Description held in the map)
M_DescriptionAfter(description, attr) ==
    IF /\ ~description.isNil
       /\ attr \in DOMAIN description.m
       /\ description.m[attr].form = "Description"
    THEN [description EXCEPT !.m[attr] = ResolveTarget(@, attr)]
    ELSE description
DescriptionAfter(description, attr) == description

RECURSIVE Translate(_, _)

\* maptrans.go:159-163: a source field without a description is ignored
\* (variant: copies the field under its own name)
M_IgnoreField(result, attr, value) == {Cont(MapSet(result, attr, value))}
IgnoreField(result, attr, value) == {Cont(result)}

\* maptrans.go:166-174: "name": "newName", a string conversion
\* (variant: stores the string as it is, without trimming)
M_TranslateString(stringConversion, result, attr, value) ==
    LET r == StringMap(value) IN
    IF ~r.ok THEN {Fail(result, NewInvalidProp(attr))}
    ELSE {Cont(MapSet(result, stringConversion, value))}
TranslateString(stringConversion, result, attr, value) ==
    LET r == StringMap(value) IN
    IF ~r.ok THEN {Fail(result, NewInvalidProp(attr))}
    ELSE {Cont(MapSet(result, stringConversion, r.val))}

\* maptrans.go:185-196
\* (variant: the InvalidProperty error names the target, not the key)
M_TranslateCustom(md, result, attr, value) ==
    IF md.MapFunc = "nil"
    THEN {FailNil(NewInternalError(attr))}
    ELSE LET r == ApplyMapFunc(md.MapFunc, value) IN
         IF ~r.ok THEN {FailNil(NewInvalidProp(md.TargetName))}
         ELSE {Cont(MapSet(result, md.TargetName, r.val))}
TranslateCustom(md, result, attr, value) ==
    IF md.MapFunc = "nil"
    THEN {FailNil(NewInternalError(attr))}
    ELSE LET r == ApplyMapFunc(md.MapFunc, value) IN
         IF ~r.ok THEN {FailNil(NewInvalidProp(attr))}
         ELSE {Cont(MapSet(result, md.TargetName, r.val))}

\* maptrans.go:197-210
\* (variant: stores the embedded map as it is, without translating it)
M_TranslateMap(md, result, attr, value) ==
    IF value.tag # "map"
    THEN {FailNil(NewInternalError("invalid type"))}
    ELSE {IF o.err # NoErr
          THEN FailNil(o.err)
          ELSE Cont(MapSet(result, md.TargetName, value))
            : o \in Translate(value.m, md.SubTranslation)}
TranslateMap(md, result, attr, value) ==
    IF value.tag # "map"
    THEN {FailNil(NewInternalError("invalid type"))}
    ELSE {IF o.err # NoErr
          THEN FailNil(o.err)
          ELSE Cont(MapSet(result, md.TargetName, MapV(o.res)))
            : o \in Translate(value.m, md.SubTranslation)}

\* maptrans.go:219-227: the elements in index order; the first failure
\* returns.  The result is a set of [err, res].
\* (variant: appends the translations in reverse order)
RECURSIVE M_TranslateAll(_, _)
M_TranslateAll(srcMaps, sub) ==
    IF srcMaps = <<>> THEN {[err |-> NoErr, res |-> <<>>]}
    ELSE UNION {
           IF o.err # NoErr
           THEN {[err |-> o.err, res |-> <<>>]}
           ELSE {[err |-> r.err,
                  res |-> IF r.err = NoErr THEN r.res \o <<o.res>> ELSE <<>>]
                    : r \in M_TranslateAll(Tail(srcMaps), sub)}
             : o \in Translate(Head(srcMaps), sub)}
RECURSIVE TranslateAll(_, _)
TranslateAll(srcMaps, sub) ==
    IF srcMaps = <<>> THEN {[err |-> NoErr, res |-> <<>>]}
    ELSE UNION {
           IF o.err # NoErr
           THEN {[err |-> o.err, res |-> <<>>]}
           ELSE {[err |-> r.err,
                  res |-> IF r.err = NoErr THEN <<o.res>> \o r.res ELSE <<>>]
                    : r \in TranslateAll(Tail(srcMaps), sub)}
             : o \in Translate(Head(srcMaps), sub)}

\* maptrans.go:211-228
\* (variant: the failure of an element is reported as InvalidProperty
\* naming the key of the array)
M_TranslateMapArray(md, result, attr, value) ==
    LET dec == Decode(value) IN
    IF ~dec.ok
    THEN {FailNil(NewInternalError("decode"))}
    ELSE {IF o.err # NoErr
          THEN FailNil(NewInvalidProp(attr))
          ELSE Cont(MapSet(result, md.TargetName, ArrV(o.res)))
            : o \in TranslateAll(dec.maps, md.SubTranslation)}
TranslateMapArray(md, result, attr, value) ==
    LET dec == Decode(value) IN
    IF ~dec.ok
    THEN {FailNil(NewInternalError("decode"))}
    ELSE {IF o.err # NoErr
          THEN FailNil(o.err)
          ELSE Cont(MapSet(result, md.TargetName, ArrV(o.res)))
            : o \in TranslateAll(dec.maps, md.SubTranslation)}

\* maptrans.go:229-238
\* (variant: a missing ModFunc is reported as InvalidProperty)
M_TranslateModify(md, src, result, attr, value) ==
    IF md.ModFunc = "nil"
    THEN {FailNil(NewInvalidProp(attr))}
    ELSE LET r == ApplyModFunc(md.ModFunc, src, result, value) IN
         IF ~r.ok THEN {FailNil(NewInvalidProp(attr))}
         ELSE {Cont(r.dst)}
TranslateModify(md, src, result, attr, value) ==
    IF md.ModFunc = "nil"
    THEN {FailNil(NewInternalError(attr))}
    ELSE LET r == ApplyModFunc(md.ModFunc, src, result, value) IN
         IF ~r.ok THEN {FailNil(NewInvalidProp(attr))}
         ELSE {Cont(r.dst)}

\* maptrans.go:158-245, the body of the second loop, for the source key
\* attr: the set of steps it can take.
TranslateField(src, description, result, attr) ==
    LET value == src[attr] IN
    IF attr \notin DOMAIN description
    THEN IgnoreField(result, attr, value)
    ELSE
    LET mapDescr == description[attr] IN
    IF mapDescr.form = "string"
    THEN TranslateString(mapDescr.TargetName, result, attr, value)
    ELSE IF mapDescr.form # "Description"
    THEN {FailNil(NewInternalError("not a Description"))}
    ELSE
    LET md == ResolveTarget(mapDescr, attr) IN
    CASE md.Type = CustomTranslation ->
            TranslateCustom(md, result, attr, value)
      [] md.Type = MapTranslation ->
            TranslateMap(md, result, attr, value)
      [] md.Type = MapArrayTranslation ->
            TranslateMapArray(md, result, attr, value)
      [] md.Type = ModifyTranslation ->
            TranslateModify(md, src, result, attr, value)
      [] md.Type = InsertTranslation -> {Cont(result)}
      [] OTHER -> {FailNil(NewInternalError("Invalid Translation type"))}

\* maptrans.go:267: _, isPresent := result[md.TargetName]
\* (variant: a result that holds any key counts as holding the name)
M_IsPresent(result, name) == result # EmptyMap
IsPresent(result, name) == name \in DOMAIN result

\* maptrans.go:266-269 with 257-264: the InsertFunc of entry attr is called
InsertFuncCalled(description, result, attr) ==
    LET md == description[attr] IN
    /\ md.form = "Description"
    /\ md.Type = InsertTranslation
    /\ md.InsertFunc # "nil"
    /\ ~IsPresent(result, md.TargetName)

\* maptrans.go:248-278, the body of the third loop, for the entry attr
\* (variant: no test for a value that is already present)
M_InsertField(src, description, result, attr) ==
    LET md == description[attr] IN
    IF md.form = "string" THEN Cont(result)
    ELSE IF md.form # "Description"
    THEN FailNil(NewInternalError("not a Description"))
    ELSE IF md.Type # InsertTranslation THEN Cont(result)
    ELSE IF md.InsertFunc = "nil" THEN FailNil(NewInternalError(attr))
    ELSE LET r == ApplyInsertFunc(md.InsertFunc, src, result, attr) IN
         IF ~r.ok THEN FailNil(PlainError)
         ELSE Cont(MapSet(r.dst, md.TargetName, r.val))
InsertField(src, description, result, attr) ==
    LET md == description[attr] IN
    IF md.form = "string" THEN Cont(result)
    ELSE IF md.form # "Description"
    THEN FailNil(NewInternalError("not a Description"))
    ELSE IF md.Type # InsertTranslation THEN Cont(result)
    ELSE IF md.InsertFunc = "nil" THEN FailNil(NewInternalError(attr))
    ELSE IF IsPresent(result, md.TargetName) THEN Cont(result)
    ELSE LET r == ApplyInsertFunc(md.InsertFunc, src, result, attr) IN
         IF ~r.ok THEN FailNil(PlainError)
         ELSE Cont(MapSet(r.dst, md.TargetName, r.val))

\* the three loops of a nested call, over every order of the keys
RECURSIVE MandatoryLoop(_, _, _)
MandatoryLoop(src, description, todo) ==
    IF todo = {} THEN {NoErr}
    ELSE UNION {LET e == CheckMandatory(src, description, k) IN
                IF e # NoErr THEN {e}
                ELSE MandatoryLoop(src, description, todo \ {k})
                  : k \in todo}

\* (variant: a field that fails ends the loop, as a break would, and the
\* call goes on with what has been translated so far)
RECURSIVE M_TranslateLoop(_, _, _, _)
M_TranslateLoop(src, description, result, todo) ==
    IF todo = {} THEN {Cont(result)}
    ELSE UNION {UNION {IF st.err # NoErr THEN {Cont(result)}
                       ELSE M_TranslateLoop(src, description, st.result,
                                            todo \ {k})
                         : st \in TranslateField(src, description, result, k)}
                  : k \in todo}
RECURSIVE TranslateLoop(_, _, _, _)
TranslateLoop(src, description, result, todo) ==
    IF todo = {} THEN {Cont(result)}
    ELSE UNION {UNION {IF st.err # NoErr THEN {st}
                       ELSE TranslateLoop(src, description, st.result,
                                          todo \ {k})
                         : st \in TranslateField(src, description, result, k)}
                  : k \in todo}

RECURSIVE InsertLoop(_, _, _, _)
InsertLoop(src, description, result, todo) ==
    IF todo = {} THEN {Cont(result)}
    ELSE UNION {LET st == InsertField(src, description, result, k) IN
                IF st.err # NoErr THEN {st}
                ELSE InsertLoop(src, description, st.result, todo \ {k})
                  : k \in todo}

\* maptrans.go:131-280: the set of the results of Translate(src,
\* description), one for every order in which the maps can be ranged over
Translate(src, description) ==
    IF description.isNil THEN {Ret(src, NoErr)}
    ELSE
    LET d == description.m IN
    UNION {IF e # NoErr THEN {RetNil(e)}
           ELSE UNION {IF s2.err # NoErr THEN {StepRet(s2)}
                       ELSE {StepRet(s3)
                               : s3 \in InsertLoop(src, d, s2.result,
                                                   DOMAIN d)}
                         : s2 \in TranslateLoop(src, d, EmptyMap,
                                                DOMAIN src)}
             : e \in MandatoryLoop(src, d, DOMAIN d)}

(***************************************************************************)
(* IsSimilar (maptrans.go:440-544).  What a call returns is [ok, err].     *)
(***************************************************************************)
Similar == [ok |-> TRUE, err |-> NoErr]
NotSimilar(err) == [ok |-> FALSE, err |-> err]

RECURSIVE IsSimilar(_, _, _)

\* maptrans.go:531-537: the elements pairwise by index, the first mismatch
\* returns
\* (variant: an element of src is compared with any element of dst)
RECURSIVE M_IsSimilarAll(_, _, _)
M_IsSimilarAll(srcMaps, dstMaps, sub) ==
    IF srcMaps = <<>> THEN {Similar}
    ELSE IF \E j \in 1..Len(dstMaps) :
               \A o \in IsSimilar(Head(srcMaps), dstMaps[j], sub) : o.ok
         THEN M_IsSimilarAll(Tail(srcMaps), dstMaps, sub)
         ELSE {NotSimilar(PlainError)}
RECURSIVE IsSimilarAll(_, _, _)
IsSimilarAll(srcMaps, dstMaps, sub) ==
    IF srcMaps = <<>> THEN {Similar}
    ELSE UNION {IF ~o.ok THEN {o}
                ELSE IsSimilarAll(Tail(srcMaps), Tail(dstMaps), sub)
                  : o \in IsSimilar(Head(srcMaps), Head(dstMaps), sub)}

\* maptrans.go:451-472: "name": "newName", the strings are compared
\* (variant: looks the value up in dst under the source key)
M_IsSimilarString(stringConversion, dst, k, vSrc) ==
    IF vSrc.tag # "str"
    THEN {NotSimilar(NewInternalError("Invalid description value"))}
    ELSE IF k \notin DOMAIN dst \/ dst[k].tag # "str"
    THEN {NotSimilar(NewInternalError("Missing value"))}
    ELSE IF vSrc.s # dst[k].s
    THEN {NotSimilar(PlainError)}
    ELSE {Similar}
IsSimilarString(stringConversion, dst, k, vSrc) ==
    IF vSrc.tag # "str"
    THEN {NotSimilar(NewInternalError("Invalid description value"))}
    ELSE IF \/ stringConversion \notin DOMAIN dst
            \/ dst[stringConversion].tag # "str"
    THEN {NotSimilar(NewInternalError("Missing value"))}
    ELSE IF vSrc.s # dst[stringConversion].s
    THEN {NotSimilar(PlainError)}
    ELSE {Similar}

\* maptrans.go:479-504
IsSimilarMap(md, dst, vSrc) ==
    IF vSrc.tag # "map" THEN {NotSimilar(PlainError)}
    ELSE IF md.TargetName \notin DOMAIN dst
    THEN {NotSimilar(PlainError)}
    ELSE IF dst[md.TargetName].tag # "map"
    THEN {NotSimilar(PlainError)}
    ELSE IsSimilar(vSrc.m, dst[md.TargetName].m, md.SubTranslation)

\* maptrans.go:505-537
IsSimilarMapArray(md, dst, vSrc) ==
    LET srcDec == Decode(vSrc) IN
    IF ~srcDec.ok THEN {NotSimilar(PlainError)}
    ELSE IF md.TargetName \notin DOMAIN dst
    THEN {NotSimilar(PlainError)}
    ELSE
    LET dstDec == Decode(dst[md.TargetName]) IN
    IF ~dstDec.ok THEN {NotSimilar(PlainError)}
    ELSE IF Len(srcDec.maps) # Len(dstDec.maps)
    THEN {NotSimilar(PlainError)}
    ELSE IsSimilarAll(srcDec.maps, dstDec.maps, md.SubTranslation)

\* maptrans.go:443-542, the body of the loop, for the key k of src
IsSimilarField(src, dst, descr, k) ==
    LET vSrc == src[k] IN
    IF k \notin DOMAIN descr THEN {Similar}
    ELSE
    LET mapDescr == descr[k] IN
    IF mapDescr.form = "string"
    THEN IsSimilarString(mapDescr.TargetName, dst, k, vSrc)
    ELSE IF mapDescr.form # "Description"
    THEN {NotSimilar(NewInternalError("invalid description"))}
    ELSE
    LET md == mapDescr IN
    CASE md.Type = MapTranslation -> IsSimilarMap(md, dst, vSrc)
      [] md.Type = MapArrayTranslation -> IsSimilarMapArray(md, dst, vSrc)
      [] OTHER -> {NotSimilar(PlainError)}

RECURSIVE IsSimilarLoop(_, _, _, _)
IsSimilarLoop(src, dst, descr, todo) ==
    IF todo = {} THEN {Similar}
    ELSE UNION {UNION {IF ~o.ok THEN {o}
                       ELSE IsSimilarLoop(src, dst, descr, todo \ {k})
                         : o \in IsSimilarField(src, dst, descr, k)}
                  : k \in todo}

\* the set of the results of IsSimilar(src, dst, descr), one for every
\* order in which src can be ranged over; a nil description reads as empty
IsSimilar(src, dst, descr) ==
    IsSimilarLoop(src, dst, descr.m, DOMAIN src)

(***************************************************************************)
(* The inputs: sources and descriptions in the shape of those of           *)
(* maptrans_test.go.  A source has the keys "A" (a scalar), "B" (a scalar, *)
(* a map or an array of maps) and "C" (a key no description names); a      *)
(* description has entries for "A", "B" and "I" (a key no source has).     *)
(***************************************************************************)
Absent == [tag |-> "absent"]
NoEntry == [form |-> "absent"]

\* the map of the keys of f that are present
Present(f) == [k \in {x \in DOMAIN f : f[x] # Absent /\ f[x] # NoEntry} |-> f[k]]

Leaves == {StrV(<<"x">>), StrV(<<" ", "y">>), IntV(1)}
SubMaps == {[X |-> v] : v \in Leaves \cup {StrV(<<"z">>)}}
Arrays == UNION {[1..n -> SubMaps] : n \in 0..MaxLen}

Custom(t, f, mand) ==
    Description(t, CustomTranslation, f, "nil", "nil", NilDescr, mand)
Nested(t, sub) ==
    Description(t, MapTranslation, "nil", "nil", "nil", sub, FALSE)
NestedArray(t, sub) ==
    Description(t, MapArrayTranslation, "nil", "nil", "nil", sub, FALSE)
Modify(f) ==
    Description("", ModifyTranslation, "nil", f, "nil", NilDescr, FALSE)
Insert(t, f) ==
    Description(t, InsertTranslation, "nil", "nil", f, NilDescr, FALSE)

SubDescrs ==
    {NilDescr,
     Descr([X |-> Rename("x")]),
     Descr([X |-> Rename("X")]),
     Descr([X |-> Rename("x"), Y |-> Custom("", "StringMap", TRUE)])}

ScalarEntries ==
    {NoEntry, BadEntry, Rename("a"), Rename("C"),
     Custom("a", "StringMap", FALSE), Custom("", "StringMap", FALSE),
     Custom("a", "StringMap", TRUE), Custom("", "IDMap", FALSE),
     Custom("a", "nil", FALSE),
     Modify("modSet"), Modify("modFail"), Modify("nil"),
     Insert("a", "insName")}

NestedEntries ==
    {NoEntry, Rename("a"), Custom("", "IDMap", FALSE), Modify("modSet")}
    \cup {Nested(t, sub) : t \in {"", "a"}, sub \in SubDescrs}
    \cup {NestedArray(t, sub) : t \in {"", "a"}, sub \in SubDescrs}

InsertEntries ==
    {NoEntry, Custom("", "StringMap", TRUE),
     Insert("a", "insName"), Insert("", "insName"), Insert("b", "insWrite"),
     Insert("b", "insName"),
     Insert("a", "nil"), Insert("b", "insFail")}

\* sources and descriptions about scalar fields
ScalarInputs ==
    {[src |-> Present([A |-> a, B |-> b, C |-> c]),
      description |-> Descr(Present([A |-> da, B |-> db, I |-> di]))]
        : a \in Leaves \cup {Absent}, b \in {Absent, StrV(<<"x">>), IntV(1)},
          c \in {Absent, StrV(<<"x">>)},
          da \in ScalarEntries,
          db \in {NoEntry, Rename("a"), Custom("", "IDMap", FALSE),
                  Modify("modSet")},
          di \in InsertEntries}

\* sources and descriptions about embedded maps and arrays of maps
NestedInputs ==
    {[src |-> Present([A |-> a, B |-> b]),
      description |-> Descr(Present([A |-> da, B |-> db, I |-> di]))]
        : a \in {Absent, StrV(<<"x">>)},
          b \in {Absent, StrV(<<"x">>)} \cup {MapV(m) : m \in SubMaps}
                  \cup {ArrV(s) : s \in Arrays},
          da \in {NoEntry, Rename("a"), Custom("a", "StringMap", TRUE)},
          db \in NestedEntries,
          di \in {NoEntry, Insert("a", "insName")}}

\* sources and descriptions of TestInteger and TestInvalidNumbers
\* (maptrans_test.go:467-489, 546-560): an integer, or a string of digits,
\* signs and spaces, under a Custom entry with IntegerMap
NumberChars == {Digits[i] : i \in 1..10} \cup {"-", " "}
NumberStrings == UNION {[1..n -> NumberChars] : n \in 0..MaxDigits}
Numbers ==
    {IntV(n) : n \in (0 - MaxInt)..MaxInt} \cup {StrV(s) : s \in NumberStrings}

IntegerInputs ==
    {[src |-> [A |-> a],
      description |-> Descr([A |-> Custom(t, "IntegerMap", mand)])]
        : a \in Numbers, t \in {"", "a"}, mand \in BOOLEAN}

\* sources and descriptions of TestBoolMap (maptrans_test.go:278-308): a
\* bool, or a string, under a Custom entry with BoolMap.  The strings are
\* "true" and "false" in every letter case, the one-character strings and
\* strings that are no boolean.
RECURSIVE CaseMixes(_)
CaseMixes(word) ==
    IF word = <<>> THEN {<<>>}
    ELSE {<<c>> \o s : c \in Head(word), s \in CaseMixes(Tail(word))}

BoolStrings ==
    CaseMixes(<<{"t", "T"}, {"r", "R"}, {"u", "U"}, {"e", "E"}>>)
    \cup CaseMixes(<<{"f", "F"}, {"a", "A"}, {"l", "L"}, {"s", "S"},
                     {"e", "E"}>>)
    \cup {<<c>> : c \in {"t", "T", "f", "F", "1", "0", "2", "y"}}
    \cup {<<>>, <<"m", "a", "y", "b", "e">>, <<" ", "T">>, <<"1", "0">>}

Booleans == {BoolV(b) : b \in BOOLEAN} \cup {StrV(s) : s \in BoolStrings}

BoolInputs ==
    {[src |-> [A |-> a],
      description |-> Descr([A |-> Custom(t, "BoolMap", mand)])]
        : a \in Booleans \cup {IntV(1)}, t \in {"", "a"}, mand \in BOOLEAN}

\* a nil description: no translation
NilInputs ==
    {[src |-> Present([A |-> a, B |-> b]), description |-> NilDescr]
        : a \in Leaves \cup {Absent},
          b \in {Absent} \cup {MapV(m) : m \in SubMaps}}

(***************************************************************************)
(* The state: one call Translate(src, description), a loop iteration at a  *)
(* time, followed by the IsSimilar call the tests make on its result, a    *)
(* loop iteration at a time, or by a write of the caller into the map it   *)
(* got.                                                                    *)
(***************************************************************************)
VARIABLES
    src,          \* the source map
    description,  \* the description map
    pc,           \* where the call is
    todo,         \* the keys the current loop has not visited yet
    result,       \* the map being built
    ret,          \* what the call returned, once pc = "done"
    last,         \* [loop, key]: the iteration made last
    calls,        \* the caller-supplied functions called so far, in order
    phase2,       \* the result when the second loop ended
    sim,          \* the IsSimilar call: what it returned, once pc = "verified"
    aliased       \* the map that the call returns is the map src itself

vars ==
    <<src, description, pc, todo, result, ret, last, calls, phase2, sim,
      aliased>>

NoSim == [mode |-> "none", ok |-> FALSE, err |-> NoErr]

\* the call is made on an input of the family S
CallOn(S) == \E i \in S : src = i.src /\ description = i.description

\* the call is made on an input of one of the families
Init ==
    /\ \/ CallOn(ScalarInputs)
       \/ CallOn(NestedInputs)
       \/ CallOn(NilInputs)
       \/ CallOn(IntegerInputs)
       \/ CallOn(BoolInputs)
    /\ pc = "start"
    /\ todo = {}
    /\ result = EmptyMap
    /\ ret = RetNil(NoErr)
    /\ last = [loop |-> "none", key |-> ""]
    /\ calls = <<>>
    /\ phase2 = EmptyMap
    /\ sim = NoSim
    /\ aliased = FALSE

Return(r) ==
    /\ pc' = "done"
    /\ ret' = r
    /\ todo' = {}

\* maptrans.go:133-136
\* (variant: a nil description gives the empty map)
M_NoTranslation ==
    /\ pc = "start"
    /\ description.isNil
    /\ Return(Ret(EmptyMap, NoErr))
    /\ aliased' = TRUE
    /\ UNCHANGED <<src, description, result, last, calls, phase2, sim>>
NoTranslation ==
    /\ pc = "start"
    /\ description.isNil
    /\ Return(Ret(src, NoErr))
    /\ aliased' = TRUE
    /\ UNCHANGED <<src, description, result, last, calls, phase2, sim>>

\* maptrans.go:137
Begin ==
    /\ pc = "start"
    /\ ~description.isNil
    /\ pc' = "mandatory"
    /\ result' = EmptyMap
    /\ aliased' = FALSE
    /\ todo' = DOMAIN description.m
    /\ UNCHANGED <<src, description, ret, last, calls, phase2, sim>>

\* maptrans.go:139-154, one iteration
MandatoryStep ==
    /\ pc = "mandatory"
    /\ \E k \in todo :
         LET e == CheckMandatory(src, description.m, k) IN
         /\ last' = [loop |-> "mandatory", key |-> k]
         /\ IF e # NoErr
            THEN Return(RetNil(e))
            ELSE /\ todo' = todo \ {k}
                 /\ UNCHANGED <<pc, ret>>
    /\ UNCHANGED <<aliased, src, description, result, calls, phase2, sim>>

\* maptrans.go:154-158, the first loop ends and the second begins
\* (variant: the second loop begins before the first has ended)
M_MandatoryEnd ==
    /\ pc = "mandatory"
    /\ pc' = "translate"
    /\ todo' = DOMAIN src
    /\ UNCHANGED <<aliased, src, description, result, ret, last, calls, phase2,
                   sim>>
MandatoryEnd ==
    /\ pc = "mandatory"
    /\ todo = {}
    /\ pc' = "translate"
    /\ todo' = DOMAIN src
    /\ UNCHANGED <<aliased, src, description, result, ret, last, calls, phase2,
                   sim>>

\* the caller-supplied function that TranslateField calls for attr, if any
FieldCall(attr) ==
    IF attr \notin DOMAIN description.m THEN <<>>
    ELSE LET md == description.m[attr] IN
         IF md.form # "Description" THEN <<>>
         ELSE IF md.Type = CustomTranslation /\ md.MapFunc # "nil"
         THEN << [fn |-> "MapFunc", key |-> attr] >>
         ELSE IF md.Type = ModifyTranslation /\ md.ModFunc # "nil"
         THEN << [fn |-> "ModFunc", key |-> attr] >>
         ELSE IF md.Type = MapTranslation /\ src[attr].tag = "map"
         THEN << [fn |-> "Translate", key |-> attr] >>
         ELSE IF md.Type = MapArrayTranslation /\ Decode(src[attr]).ok
                   /\ Decode(src[attr]).maps # <<>>
         THEN << [fn |-> "Translate", key |-> attr] >>
         ELSE <<>>

\* maptrans.go:158-245, one iteration
TranslateStep ==
    /\ pc = "translate"
    /\ \E attr \in todo :
         \E st \in TranslateField(src, description.m, result, attr) :
            /\ last' = [loop |-> "translate", key |-> attr]
            /\ calls' = calls \o FieldCall(attr)
            /\ description' = DescriptionAfter(description, attr)
            /\ IF st.err # NoErr
               THEN /\ Return(StepRet(st))
                    /\ UNCHANGED result
               ELSE /\ result' = st.result
                    /\ todo' = todo \ {attr}
                    /\ UNCHANGED <<pc, ret>>
    /\ UNCHANGED <<aliased, src, phase2, sim>>

\* maptrans.go:245-248, the second loop ends and the third begins
\* (variant: the third loop ranges over the entries whose key the source
\* lacks)
M_TranslateEnd ==
    /\ pc = "translate"
    /\ todo = {}
    /\ pc' = "insert"
    /\ todo' = (DOMAIN description.m) \ (DOMAIN src)
    /\ phase2' = result
    /\ UNCHANGED <<aliased, src, description, result, ret, last, calls, sim>>
TranslateEnd ==
    /\ pc = "translate"
    /\ todo = {}
    /\ pc' = "insert"
    /\ todo' = DOMAIN description.m
    /\ phase2' = result
    /\ UNCHANGED <<aliased, src, description, result, ret, last, calls, sim>>

\* maptrans.go:248-278, one iteration
InsertStep ==
    /\ pc = "insert"
    /\ \E attr \in todo :
         LET st == InsertField(src, description.m, result, attr) IN
         /\ last' = [loop |-> "insert", key |-> attr]
         /\ calls' = IF InsertFuncCalled(description.m, result, attr)
                     THEN Append(calls, [fn |-> "InsertFunc", key |-> attr])
                     ELSE calls
         /\ IF st.err # NoErr
            THEN /\ Return(StepRet(st))
                 /\ UNCHANGED result
            ELSE /\ result' = st.result
                 /\ todo' = todo \ {attr}
                 /\ UNCHANGED <<pc, ret>>
    /\ UNCHANGED <<aliased, src, description, phase2, sim>>

\* maptrans.go:279
ReturnResult ==
    /\ pc = "insert"
    /\ todo = {}
    /\ Return(Ret(result, NoErr))
    /\ UNCHANGED <<aliased, src, description, result, last, calls, phase2, sim>>

\* after a successful call the caller writes a key into the map it got
\* (maptrans_test.go:244-247 writes into a destination map in this way):
\* the write goes to the source as well when the two are the same map
NewKey == "w"

CallerWrite ==
    /\ pc = "done"
    /\ ret.err = NoErr
    /\ ~ret.isNil
    /\ ret' = [ret EXCEPT !.res = MapSet(@, NewKey, StrV(<<NewKey>>))]
    /\ src' = IF aliased THEN MapSet(src, NewKey, StrV(<<NewKey>>)) ELSE src
    /\ pc' = "written"
    /\ UNCHANGED <<description, todo, result, last, calls, phase2, sim,
                   aliased>>

\* the name under which the entry k of the description d stores its value
TargetOf(d, k) ==
    IF d[k].form = "string" THEN d[k].TargetName
    ELSE ResolveTarget(d[k], k).TargetName

\* a description made of "name": "newName", MapTranslation and
\* MapArrayTranslation entries only, with distinct target names: the
\* descriptions for which the tests write a verifier
RECURSIVE Swappable(_)
Swappable(descr) ==
    \/ descr.isNil
    \/ LET d == descr.m IN
       /\ \A k \in DOMAIN d :
            \/ d[k].form = "string"
            \/ /\ d[k].form = "Description"
               /\ d[k].Type \in {MapTranslation, MapArrayTranslation}
               /\ Swappable(d[k].SubTranslation)
       /\ \A k1, k2 \in DOMAIN d : TargetOf(d, k1) = TargetOf(d, k2) => k1 = k2

\* the verifier of the tests (maptrans_test.go:33-35, 64-73, 106-115): the
\* description with source and target names swapped at every level
RECURSIVE Swap(_)
Swap(descr) ==
    IF descr.isNil THEN NilDescr
    ELSE
    LET d == descr.m
        from(t) == CHOOSE k \in DOMAIN d : TargetOf(d, k) = t
    IN  Descr([t \in {TargetOf(d, k) : k \in DOMAIN d} |->
                 IF d[from(t)].form = "string" THEN Rename(from(t))
                 ELSE [d[from(t)] EXCEPT !.TargetName = from(t),
                                         !.SubTranslation = Swap(@)]])

\* a destination map with the elements of its arrays in another order
Reverse(a) == [i \in 1..Len(a) |-> a[Len(a) + 1 - i]]
PermuteArrays(m) ==
    [k \in DOMAIN m |-> IF m[k].tag = "arr" THEN ArrV(Reverse(m[k].a))
                                             ELSE m[k]]

\* the arguments of the IsSimilar call being made: IsSimilar(src, dst,
\* description) on the result of the translation, IsSimilar(dst, src,
\* verifier) as the tests call it (maptrans_test.go:43, 83, 121), or
\* IsSimilar(src, dst', description) on a destination map dst' whose arrays
\* were permuted
SimSrc == IF sim.mode = "swapped" THEN ret.res ELSE src
SimDst ==
    CASE sim.mode = "swapped" -> src
      [] sim.mode = "permuted" -> PermuteArrays(ret.res)
      [] OTHER -> ret.res
SimDescr == IF sim.mode = "swapped" THEN Swap(description) ELSE description

\* the keys that the loop of IsSimilar has visited
SimVisited == (DOMAIN SimSrc) \ todo

\* maptrans.go:440-443: IsSimilar(src, dst, description) is called on the
\* result of the translation
VerifySame ==
    /\ pc = "done"
    /\ ret.err = NoErr
    /\ sim' = [mode |-> "same", ok |-> TRUE, err |-> NoErr]
    /\ todo' = DOMAIN src
    /\ pc' = "similar"
    /\ UNCHANGED <<aliased, src, description, result, ret, last, calls, phase2>>

\* maptrans.go:440-443: IsSimilar(dst, src, verifier) is called
VerifySwapped ==
    /\ pc = "done"
    /\ ret.err = NoErr
    /\ Swappable(description)
    /\ sim' = [mode |-> "swapped", ok |-> TRUE, err |-> NoErr]
    /\ todo' = DOMAIN ret.res
    /\ pc' = "similar"
    /\ UNCHANGED <<aliased, src, description, result, ret, last, calls, phase2>>

\* maptrans.go:440-443: IsSimilar(src, dst', description) is called, dst'
\* being the result with the elements of its arrays in another order
VerifyPermuted ==
    /\ pc = "done"
    /\ ret.err = NoErr
    /\ PermuteArrays(ret.res) # ret.res
    /\ sim' = [mode |-> "permuted", ok |-> TRUE, err |-> NoErr]
    /\ todo' = DOMAIN src
    /\ pc' = "similar"
    /\ UNCHANGED <<aliased, src, description, result, ret, last, calls, phase2>>

\* maptrans.go:443-542, one iteration: the first mismatch returns
\* (variant: a mismatch is recorded and the loop goes on)
M_VerifyStep ==
    /\ pc = "similar"
    /\ \E k \in todo :
         \E o \in IsSimilarField(SimSrc, SimDst, SimDescr.m, k) :
            /\ last' = [loop |-> "similar", key |-> k]
            /\ todo' = todo \ {k}
            /\ IF ~o.ok
               THEN sim' = [sim EXCEPT !.ok = FALSE, !.err = o.err]
               ELSE UNCHANGED sim
            /\ UNCHANGED pc
    /\ UNCHANGED <<aliased, src, description, result, ret, calls, phase2>>
VerifyStep ==
    /\ pc = "similar"
    /\ \E k \in todo :
         \E o \in IsSimilarField(SimSrc, SimDst, SimDescr.m, k) :
            /\ last' = [loop |-> "similar", key |-> k]
            /\ todo' = todo \ {k}
            /\ IF ~o.ok
               THEN /\ sim' = [sim EXCEPT !.ok = FALSE, !.err = o.err]
                    /\ pc' = "verified"
               ELSE UNCHANGED <<pc, sim>>
    /\ UNCHANGED <<aliased, src, description, result, ret, calls, phase2>>

\* maptrans.go:543: every key passed
VerifyEnd ==
    /\ pc = "similar"
    /\ todo = {}
    /\ pc' = "verified"
    /\ UNCHANGED <<aliased, src, description, todo, result, ret, last, calls,
                   phase2, sim>>

Next ==
    \/ NoTranslation
    \/ Begin
    \/ MandatoryStep
    \/ MandatoryEnd
    \/ TranslateStep
    \/ TranslateEnd
    \/ InsertStep
    \/ ReturnResult
    \/ VerifySame
    \/ VerifySwapped
    \/ VerifyPermuted
    \/ VerifyStep
    \/ VerifyEnd
    \/ CallerWrite

Spec == Init /\ [][Next]_vars

(***************************************************************************)
(* Properties of Translate and IsSimilar.                                  *)
(***************************************************************************)
Returned == pc \in {"done", "similar", "verified"}
Succeeded == Returned /\ ret.err = NoErr
HasDescription == ~description.isNil

\* the keys of the description that are Descriptions
Rules == {k \in DOMAIN description.m : description.m[k].form = "Description"}
RulesOf(type) == {k \in Rules : description.m[k].Type = type}

\* the mandatory keys that the source lacks
MissingMandatory ==
    {k \in Rules : description.m[k].Mandatory /\ k \notin DOMAIN src}
BadEntries == {k \in DOMAIN description.m : description.m[k].form = "other"}

\* C1, as claimed: when a mandatory key k is missing from the source,
\* Translate fails with a MissingAttribute error naming k, whatever the
\* other entries are.
C1_MandatoryNamesEachKey ==
    Returned =>
        \A k \in MissingMandatory : ret.err = NewMissingAttributeError(k)

\* C1, amended: when a mandatory key is missing from the source, Translate
\* fails in the first loop and returns nil with a MissingAttribute error
\* naming a missing mandatory key (k itself when it is the only one), or
\* with an Internal error when the description holds an entry that is
\* neither a string nor a Description.
C1_MandatoryLaw ==
    MissingMandatory # {} =>
        /\ pc \in {"start", "mandatory", "done"}
        /\ Returned =>
             /\ ret.isNil
             /\ last.loop = "mandatory"
             /\ \/ /\ ret.err.kind = "MissingAttribute"
                   /\ ret.err.name \in MissingMandatory
                \/ /\ ret.err.kind = "Internal"
                   /\ BadEntries # {}

\* two mandatory keys are missing and the call has named one of them
C1_Witness ==
    /\ Returned
    /\ Cardinality(MissingMandatory) = 2
    /\ DOMAIN src # {}
    /\ ret.err = NewMissingAttributeError("I")

\* C2: whenever Translate returns an error, the map returned with it is
\* nil.
C2_NoPartialResult ==
    Returned /\ ret.err # NoErr => ret.isNil

\* the Insert entries whose InsertFunc has been called
InsertCalls ==
    {calls[i].key : i \in {j \in 1..Len(calls) : calls[j].fn = "InsertFunc"}}

\* an InsertFunc that itself writes into the destination map has been called
InsertFuncWrote ==
    \E k \in InsertCalls : description.m[k].InsertFunc = "insWrite"

\* the third loop has been entered
Phase3 ==
    /\ HasDescription
    /\ \/ pc = "insert"
       \/ Returned /\ (last.loop = "insert" \/ ret.err = NoErr)

\* C3, as claimed: in a call that gets through the third loop, the
\* InsertFunc of an Insert entry is called if and only if its TargetName is
\* absent from the result at the end of the second loop, and every key
\* present then has the same value in the final result.
C3_InsertIffAbsent ==
    Succeeded /\ HasDescription =>
        /\ \A k \in RulesOf(InsertTranslation) :
             k \in InsertCalls
                <=> description.m[k].TargetName \notin DOMAIN phase2
        /\ \A key \in DOMAIN phase2 :
             key \in DOMAIN ret.res /\ ret.res[key] = phase2[key]

\* C3, amended: in a call that reaches the third loop, the InsertFunc of an
\* Insert entry is called only if the TargetName written in the entry is
\* absent from the result at the end of the second loop, and at most one of
\* the entries that name the same target is called; when the call succeeds,
\* for every Insert entry whose TargetName was absent either one entry
\* naming that target was called or a called InsertFunc wrote that key
\* itself.  Every key present at the end of the second loop keeps its value,
\* unless a called InsertFunc itself writes that key into the map.
C3_InsertLaw ==
    Phase3 =>
        /\ \A k \in InsertCalls :
             description.m[k].TargetName \notin DOMAIN phase2
        /\ \A k1, k2 \in InsertCalls :
             description.m[k1].TargetName = description.m[k2].TargetName
                => k1 = k2
        /\ Succeeded =>
             \A k \in RulesOf(InsertTranslation) :
                LET t == description.m[k].TargetName IN
                t \notin DOMAIN phase2 =>
                    \/ \E k2 \in InsertCalls : description.m[k2].TargetName = t
                    \/ t = ModKey /\ InsertFuncWrote
        /\ \A key \in DOMAIN phase2 :
             /\ key \in DOMAIN result
             /\ \/ result[key] = phase2[key]
                \/ key = ModKey /\ InsertFuncWrote

\* two Insert entries name the same absent target, one of them was called,
\* and the second loop had stored another key
C3_Witness ==
    /\ Succeeded
    /\ Cardinality(RulesOf(InsertTranslation)) = 2
    /\ Cardinality(InsertCalls) = 1
    /\ \A k \in RulesOf(InsertTranslation) : description.m[k].TargetName = "a"
    /\ DOMAIN phase2 = {"B"}
    /\ ret.res["B"] = phase2["B"]
    /\ ret.res["a"] \in {StrV(<<"A">>), StrV(<<"I">>)}

\* the keys of the source that the description does not name
Unknown == DOMAIN src \ DOMAIN description.m

Without(m, k) == [x \in (DOMAIN m) \ {k} |-> m[x]]

\* the keys of the result that the entry k of the description stores under,
\* whatever the result holds: its target name for an evaluated string,
\* Custom, Map or MapArray entry, and the key its ModFunc or InsertFunc
\* writes
Stores(k) ==
    LET e == description.m[k] IN
    IF e.form = "string"
    THEN IF k \in DOMAIN src THEN {e.TargetName} ELSE {}
    ELSE IF e.form # "Description" THEN {}
    ELSE IF e.Type \in {CustomTranslation, MapTranslation, MapArrayTranslation}
    THEN IF k \in DOMAIN src THEN {TargetOf(description.m, k)} ELSE {}
    ELSE IF e.Type = ModifyTranslation
    THEN IF k \in DOMAIN src /\ e.ModFunc = "modSet" THEN {ModKey} ELSE {}
    ELSE IF e.Type = InsertTranslation /\ e.InsertFunc = "insWrite"
    THEN {ModKey}
    ELSE {}

\* the keys of the result that the entry k of the description can write:
\* an Insert entry also writes its TargetName, when the result lacks it
Writes(k) ==
    LET e == description.m[k] IN
    IF e.form = "Description" /\ e.Type = InsertTranslation
    THEN Stores(k) \cup {e.TargetName}
    ELSE Stores(k)

\* C4, as claimed: a key of the source that the description does not name
\* is not a key of the result of a successful call.
C4_UnknownKeyAbsent ==
    Succeeded /\ HasDescription =>
        \A k \in Unknown : k \notin DOMAIN ret.res

\* C4, amended: a key k of the source that the description does not name is
\* a key of the result only when an entry of the description writes the
\* name k, and the field is never copied: the result is one that Translate
\* returns for the source without k.
C4_UnknownField ==
    Succeeded /\ HasDescription =>
        \A k \in Unknown :
            /\ k \in DOMAIN ret.res =>
                 \E k2 \in DOMAIN description.m : k \in Writes(k2)
            /\ ret \in Translate(Without(src, k), description)

\* a field without description was dropped while another was translated
C4_Witness ==
    /\ Succeeded
    /\ HasDescription
    /\ "C" \in Unknown
    /\ "C" \notin DOMAIN ret.res
    /\ "a" \in DOMAIN ret.res

\* the Custom entries whose MapFunc is called: the key is in the source
CustomRules ==
    {k \in RulesOf(CustomTranslation) :
        description.m[k].MapFunc # "nil" /\ k \in DOMAIN src}

MapOf(k) == ApplyMapFunc(description.m[k].MapFunc, src[k])

\* another entry of the description stores under the target name of k
OverWritten(k) ==
    \E k2 \in (DOMAIN description.m) \ {k} :
        TargetOf(description.m, k) \in Stores(k2)

\* C5, as claimed: for a Custom entry on a key k of the source, if the
\* MapFunc succeeds the result of a successful call holds its value under
\* the target name; if it fails the call fails with InvalidProperty naming
\* k and returns no result.
C5_CustomAsClaimed ==
    \A k \in CustomRules :
        /\ MapOf(k).ok /\ Succeeded =>
             /\ TargetOf(description.m, k) \in DOMAIN ret.res
             /\ ret.res[TargetOf(description.m, k)] = MapOf(k).val
        /\ ~MapOf(k).ok /\ Returned =>
             /\ ret.err = NewInvalidProp(k)
             /\ ret.isNil

\* C5, amended: if the MapFunc succeeds and no other entry of the
\* description writes the target name, the result of a successful call
\* holds its value under the target name; if it fails the call fails, and
\* when it is the evaluation of k that failed the error is InvalidProperty
\* naming the source key k and the returned map is nil.
C5_CustomLaw ==
    \A k \in CustomRules :
        /\ MapOf(k).ok /\ Succeeded /\ ~OverWritten(k) =>
             /\ TargetOf(description.m, k) \in DOMAIN ret.res
             /\ ret.res[TargetOf(description.m, k)] = MapOf(k).val
        /\ ~MapOf(k).ok /\ Returned =>
             /\ ret.err # NoErr
             /\ last = [loop |-> "translate", key |-> k] =>
                  ret.err = NewInvalidProp(k) /\ ret.isNil

\* a MapFunc failed on a key whose target name is another name
C5_Witness ==
    /\ Returned
    /\ "A" \in CustomRules
    /\ TargetOf(description.m, "A") = "a"
    /\ ~MapOf("A").ok
    /\ ret = RetNil(NewInvalidProp("A"))

\* the MapArray entries on a key of the source
ArrayRules == {k \in RulesOf(MapArrayTranslation) : k \in DOMAIN src}

\* the value under the name t is the array of the translations of the
\* elements of src[k], in the same order
TranslatedArray(k, t) ==
    /\ t \in DOMAIN ret.res
    /\ ret.res[t].tag = "arr"
    /\ Len(ret.res[t].a) = Len(src[k].a)
    /\ \A i \in 1..Len(src[k].a) :
         Ret(ret.res[t].a[i], NoErr)
            \in Translate(src[k].a[i], description.m[k].SubTranslation)

\* C6, as claimed: whenever Translate succeeds, the value under the target
\* name of a MapArray entry on k is a sequence as long as src[k] whose i-th
\* element is the translation of src[k][i].
C6_ArrayAsClaimed ==
    Succeeded =>
        \A k \in ArrayRules : TranslatedArray(k, TargetOf(description.m, k))

\* C6, amended: whenever Translate succeeds and no other entry of the
\* description writes the target name of the MapArray entry on k, the value
\* under that name is a sequence as long as src[k] whose i-th element is
\* the translation of src[k][i].
C6_ArrayLaw ==
    Succeeded =>
        \A k \in ArrayRules :
            ~OverWritten(k) => TranslatedArray(k, TargetOf(description.m, k))

\* an array of two maps with different translations was translated
C6_Witness ==
    /\ Succeeded
    /\ "B" \in ArrayRules
    /\ ~description.m["B"].SubTranslation.isNil
    /\ Len(src["B"].a) = 2
    /\ TranslatedArray("B", "a")
    /\ ret.res["a"].a[1] # ret.res["a"].a[2]

\* every string that a string conversion of descr reads in the map m has no
\* leading and no trailing white space
RECURSIVE Trimmed(_, _)
Trimmed(m, descr) ==
    \A k \in (DOMAIN m) \cap (DOMAIN descr.m) :
        LET e == descr.m[k] IN
        /\ e.form = "string" /\ m[k].tag = "str" =>
             TrimSpace(m[k].s) = m[k].s
        /\ e.form = "Description" /\ e.Type = MapTranslation
              /\ m[k].tag = "map" =>
             Trimmed(m[k].m, e.SubTranslation)
        /\ e.form = "Description" /\ e.Type = MapArrayTranslation
              /\ m[k].tag = "arr" =>
             \A i \in 1..Len(m[k].a) : Trimmed(m[k].a[i], e.SubTranslation)

\* C7, as claimed: for a description made of string, Map and MapArray
\* entries, when Translate(src, d) succeeds with result r, IsSimilar(r, src,
\* d') is true with no error, d' being d with the names swapped.
C7_RoundTripAsClaimed ==
    pc = "verified" /\ sim.mode = "swapped" => sim.ok /\ sim.err = NoErr

\* C7, amended: for a description made of string, Map and MapArray entries
\* with distinct target names, when Translate(src, d) succeeds with result r
\* and every string that a string conversion reads in src is already
\* trimmed, IsSimilar(r, src, d') is true with no error.
C7_RoundTrip ==
    pc = "verified" /\ sim.mode = "swapped" /\ Trimmed(src, description)
        => sim.ok /\ sim.err = NoErr

\* a renamed string and a translated array of two maps were verified
C7_Witness ==
    /\ pc = "verified"
    /\ sim = [mode |-> "swapped", ok |-> TRUE, err |-> NoErr]
    /\ Trimmed(src, description)
    /\ {"A", "B"} \subseteq (DOMAIN src) \cap (DOMAIN description.m)
    /\ description.m["A"].form = "string"
    /\ description.m["B"].Type = MapArrayTranslation
    /\ ~description.m["B"].SubTranslation.isNil
    /\ Len(src["B"].a) = 2

\* the entry that the last iteration evaluated: a Description of one of the
\* types, visited by the second loop (by the third for an Insert entry)
Evaluated(types) ==
    /\ last.key \in Rules
    /\ description.m[last.key].Type \in types
    /\ last.loop = IF description.m[last.key].Type = InsertTranslation
                   THEN "insert" ELSE "translate"

LastRule == description.m[last.key]

\* C8, as claimed: evaluating a Description that lacks what its type needs
\* (Custom without MapFunc, Map or MapArray without SubTranslation, Modify
\* without ModFunc, Insert without InsertFunc) fails with an Internal error.
C8_CapabilityAsClaimed ==
    /\ Evaluated({CustomTranslation}) /\ LastRule.MapFunc = "nil"
          => Returned /\ ret.err.kind = "Internal"
    /\ Evaluated({MapTranslation, MapArrayTranslation})
          /\ LastRule.SubTranslation.isNil
          => Returned /\ ret.err.kind = "Internal"
    /\ Evaluated({ModifyTranslation}) /\ LastRule.ModFunc = "nil"
          => Returned /\ ret.err.kind = "Internal"
    /\ Evaluated({InsertTranslation}) /\ LastRule.InsertFunc = "nil"
          => Returned /\ ret.err.kind = "Internal"

\* C8, amended: evaluating a Custom entry without MapFunc, a Modify entry
\* without ModFunc or an Insert entry without InsertFunc fails with an
\* Internal error and a nil map; a Map or MapArray entry without
\* SubTranslation is no error: a nil description means no translation, and
\* the embedded map, or the array of maps, is stored untranslated under the
\* target name.
C8_CapabilityLaw ==
    /\ Evaluated({CustomTranslation}) /\ LastRule.MapFunc = "nil"
          => Returned /\ ret = RetNil(NewInternalError(last.key))
    /\ Evaluated({ModifyTranslation}) /\ LastRule.ModFunc = "nil"
          => Returned /\ ret = RetNil(NewInternalError(last.key))
    /\ Evaluated({InsertTranslation}) /\ LastRule.InsertFunc = "nil"
          => Returned /\ ret = RetNil(NewInternalError(last.key))
    /\ Evaluated({MapTranslation, MapArrayTranslation})
          /\ LastRule.SubTranslation.isNil
          /\ src[last.key].tag
                = (IF LastRule.Type = MapTranslation THEN "map" ELSE "arr")
          => /\ Returned => ret.err = NoErr
             /\ TargetOf(description.m, last.key) \in DOMAIN result
             /\ result[TargetOf(description.m, last.key)] = src[last.key]

\* a Modify entry without ModFunc was evaluated after another field had been
\* translated
C8_Witness ==
    /\ Returned
    /\ Evaluated({ModifyTranslation})
    /\ LastRule.ModFunc = "nil"
    /\ result # EmptyMap
    /\ ret = RetNil(NewInternalError(last.key))

\* the last iteration called the InsertFunc of its entry
InsertFuncCalledLast ==
    /\ calls # <<>>
    /\ calls[Len(calls)] = [fn |-> "InsertFunc", key |-> last.key]

\* C9: a Custom, Map, MapArray or Insert entry whose TargetName is unset
\* stores the value it produces under its own key.
C9_TargetDefaulting ==
    /\ Evaluated({CustomTranslation, MapTranslation, MapArrayTranslation})
          /\ LastRule.TargetName = ""
          /\ ~(Returned /\ ret.err # NoErr)
          => last.key \in DOMAIN result
    /\ Evaluated({InsertTranslation})
          /\ LastRule.TargetName = ""
          /\ InsertFuncCalledLast
          /\ ~(Returned /\ ret.err # NoErr)
          => /\ last.key \in DOMAIN result
             /\ result[last.key] = StrV(<<last.key>>)

\* a description whose Descriptions are Map and MapArray entries with unset
\* TargetName, at every level, and whose string conversions keep the name
RECURSIVE AllUnset(_)
AllUnset(descr) ==
    \A k \in DOMAIN descr.m :
        \/ descr.m[k].form = "string" /\ descr.m[k].TargetName = k
        \/ /\ descr.m[k].form = "Description"
           /\ descr.m[k].Type \in {MapTranslation, MapArrayTranslation}
           /\ descr.m[k].TargetName = ""
           /\ AllUnset(descr.m[k].SubTranslation)

\* C10: IsSimilar resolves an unset TargetName to the key as Translate
\* does: for a description whose target names are all unset and a source
\* whose strings are trimmed, Translate(s, d) = r implies that IsSimilar(s,
\* r, d) is true.
C10_IsSimilarDefaulting ==
    /\ pc = "verified"
    /\ sim.mode = "same"
    /\ HasDescription
    /\ AllUnset(description)
    /\ Trimmed(src, description)
    => sim.ok

\* the string conversions ("name": "newName") on a key of the source
StringRules ==
    {k \in DOMAIN description.m :
        description.m[k].form = "string" /\ k \in DOMAIN src}

\* C11, as claimed: for a string conversion k -> t on a key of the source,
\* if src[k] is a string the result of a successful call holds the trimmed
\* string under t; if src[k] is not a string the call fails with
\* InvalidProperty naming k.
C11_RenameAsClaimed ==
    \A k \in StringRules :
        /\ src[k].tag = "str" /\ Succeeded =>
             /\ description.m[k].TargetName \in DOMAIN ret.res
             /\ ret.res[description.m[k].TargetName]
                   = StrV(TrimSpace(src[k].s))
        /\ src[k].tag # "str" /\ Returned => ret.err = NewInvalidProp(k)

\* C11, amended: if src[k] is a string and no other entry of the
\* description writes the name t, the result of a successful call holds the
\* trimmed string under t; if src[k] is not a string the call fails, and
\* when it is the evaluation of k that failed the error is InvalidProperty
\* naming the source key k.
C11_RenameLaw ==
    \A k \in StringRules :
        /\ src[k].tag = "str" /\ Succeeded /\ ~OverWritten(k) =>
             /\ description.m[k].TargetName \in DOMAIN ret.res
             /\ ret.res[description.m[k].TargetName]
                   = StrV(TrimSpace(src[k].s))
        /\ src[k].tag # "str" /\ Returned =>
             /\ ret.err # NoErr
             /\ last = [loop |-> "translate", key |-> k] =>
                  ret.err = NewInvalidProp(k)

\* a string with leading white space was renamed and trimmed
C11_Witness ==
    /\ Succeeded
    /\ "A" \in StringRules
    /\ description.m["A"].TargetName = "a"
    /\ src["A"] = StrV(<<" ", "y">>)
    /\ ~OverWritten("A")
    /\ ret.res["a"] = StrV(<<"y">>)

\* the Map entries on a key of the source
NestedRules == {k \in RulesOf(MapTranslation) : k \in DOMAIN src}

\* the value under the name t is a translation of the embedded map src[k]
TranslatedMap(k, t) ==
    /\ t \in DOMAIN ret.res
    /\ ret.res[t].tag = "map"
    /\ Ret(ret.res[t].m, NoErr)
          \in Translate(src[k].m, description.m[k].SubTranslation)

\* C12, as claimed: for a Map entry on a key k of the source, if src[k] is a
\* map the result of a successful call holds Translate(src[k],
\* SubTranslation) under the target name; if src[k] is not a map the call
\* fails with an Internal error.
C12_NestedAsClaimed ==
    \A k \in NestedRules :
        /\ src[k].tag = "map" /\ Succeeded =>
             TranslatedMap(k, TargetOf(description.m, k))
        /\ src[k].tag # "map" /\ Returned => ret.err.kind = "Internal"

\* C12, amended: if src[k] is a map and no other entry of the description
\* writes the target name, the result of a successful call holds
\* Translate(src[k], SubTranslation) under the target name; if src[k] is
\* not a map the call fails, and when it is the evaluation of k that failed
\* the error is an Internal error and the returned map is nil.
C12_NestedLaw ==
    \A k \in NestedRules :
        /\ src[k].tag = "map" /\ Succeeded /\ ~OverWritten(k) =>
             TranslatedMap(k, TargetOf(description.m, k))
        /\ src[k].tag # "map" /\ Returned =>
             /\ ret.err # NoErr
             /\ last = [loop |-> "translate", key |-> k] =>
                  ret.err.kind = "Internal" /\ ret.isNil

\* an embedded map was translated: its key renamed and its string trimmed
C12_Witness ==
    /\ Succeeded
    /\ "B" \in NestedRules
    /\ ~OverWritten("B")
    /\ src["B"] = MapV([X |-> StrV(<<" ", "y">>)])
    /\ TargetOf(description.m, "B") = "a"
    /\ TranslatedMap("B", "a")
    /\ ret.res["a"] = MapV([x |-> StrV(<<"y">>)])

\* C13: Translate(r, nil) succeeds and returns r unchanged, for the call
\* itself and for the translation of an embedded map.
C13_IdentityLaw ==
    /\ description.isNil /\ Returned => ret = Ret(src, NoErr)
    /\ \A m \in SubMaps : Translate(m, NilDescr) = {Ret(m, NoErr)}

\* a source of two fields came back from a call with a nil description
C13_Witness ==
    /\ Returned
    /\ description.isNil
    /\ DOMAIN src = {"A", "B"}
    /\ src["A"] = StrV(<<" ", "y">>)
    /\ ret = Ret(src, NoErr)

\* the key k passes the check that IsSimilar makes of it
SimMatches(k) ==
    \A o \in IsSimilarField(SimSrc, SimDst, SimDescr.m, k) :
        o.ok /\ o.err = NoErr

\* C14: IsSimilar returns (true, nil) or (false, a non-nil error), at every
\* depth, and returns false as soon as a key it checks mismatches: while the
\* loop runs every key visited so far has passed; a false verdict comes from
\* the key visited last, with the error of its check, and leaves the other
\* keys unvisited; a true verdict comes after every key has passed.
C14_VerdictPairing ==
    /\ pc = "similar" =>
         /\ \A k \in SimVisited : SimMatches(k)
         /\ \A k \in todo :
              \A o \in IsSimilarField(SimSrc, SimDst, SimDescr.m, k) :
                 \/ o.ok /\ o.err = NoErr
                 \/ ~o.ok /\ o.err # NoErr
    /\ pc = "verified" =>
         \/ /\ sim.ok /\ sim.err = NoErr
            /\ todo = {}
            /\ \A k \in DOMAIN SimSrc : SimMatches(k)
         \/ /\ ~sim.ok /\ sim.err # NoErr
            /\ last.loop = "similar"
            /\ last.key \in SimVisited
            /\ NotSimilar(sim.err)
                  \in IsSimilarField(SimSrc, SimDst, SimDescr.m, last.key)
            /\ \A k \in SimVisited \ {last.key} : SimMatches(k)

\* IsSimilar returned false with an error on the second key it visited, and
\* left a key unvisited
C14_Witness ==
    /\ pc = "verified"
    /\ ~sim.ok
    /\ sim.err # NoErr
    /\ Cardinality(SimVisited) = 2
    /\ todo # {}
    /\ \E k \in SimVisited \ {last.key} : k \in DOMAIN SimDescr.m

\* the MapArray entries of the description of the IsSimilar call on a key of
\* its first argument
SimArrayRules ==
    {k \in (DOMAIN SimSrc) \cap (DOMAIN SimDescr.m) :
        /\ SimDescr.m[k].form = "Description"
        /\ SimDescr.m[k].Type = MapArrayTranslation}

\* src[k] and dst[t] are arrays of maps of the same length, similar index by
\* index
SimilarArrays(s, d, k, t, sub) ==
    /\ Decode(s[k]).ok
    /\ t \in DOMAIN d
    /\ Decode(d[t]).ok
    /\ Len(Decode(s[k]).maps) = Len(Decode(d[t]).maps)
    /\ \A i \in 1..Len(Decode(s[k]).maps) :
         \A o \in IsSimilar(Decode(s[k]).maps[i], Decode(d[t]).maps[i], sub) :
            o.ok

\* C15: IsSimilar(src, dst, d) is true only if, for every MapArray entry of
\* d on a key k of src with TargetName t, src[k] and dst[t] both decode to
\* arrays of maps of equal length whose elements are similar index by
\* index.
C15_ArrayByIndex ==
    pc = "verified" /\ sim.ok =>
        \A k \in SimArrayRules :
            SimilarArrays(SimSrc, SimDst, k, SimDescr.m[k].TargetName,
                          SimDescr.m[k].SubTranslation)

\* permuting the elements of dst[t] changed the verdict: IsSimilar is false
\* for the permuted array of two maps, and true for the array as translated
C15_Witness ==
    /\ pc = "verified"
    /\ sim.mode = "permuted"
    /\ ~sim.ok
    /\ SimArrayRules = {"B"}
    /\ last.key = "B"
    /\ Len(src["B"].a) = 2
    /\ ~description.m["B"].SubTranslation.isNil
    /\ SimilarArrays(src, ret.res, "B", description.m["B"].TargetName,
                     description.m["B"].SubTranslation)
    /\ ~SimilarArrays(src, SimDst, "B", description.m["B"].TargetName,
                      description.m["B"].SubTranslation)

\* C16: no step of Translate or of IsSimilar changes the description or the
\* source, whether the call succeeds or fails (none of the caller-supplied
\* functions writes to the source): an unset TargetName is still unset after
\* the call.
C16_ReadOnly ==
    [][pc' # "written" => src' = src /\ description' = description]_vars

\* a Map entry with an unset TargetName was translated and verified: the
\* value is stored under the key and the TargetName is still unset
C16_Witness ==
    /\ pc = "verified"
    /\ "B" \in NestedRules
    /\ description.m["B"].TargetName = ""
    /\ ~description.m["B"].SubTranslation.isNil
    /\ "B" \in DOMAIN ret.res
    /\ TranslatedMap("B", "B")

\* C17: the map that a successful call returns is a map made by that call,
\* not the map src itself: a key that the caller writes into it afterwards
\* is not written into the source.
C17_FreshResult ==
    /\ pc = "done" /\ ret.err = NoErr => ~aliased
    /\ pc = "written" => NewKey \notin DOMAIN src

\* the Custom entries with the mapper fn on a key of the source
MapperRules(fn) == {k \in CustomRules : description.m[k].MapFunc = fn}

\* s is the decimal string of n: digits only, no leading zero, value n
RECURSIVE Pow10(_)
Pow10(e) == IF e = 0 THEN 1 ELSE 10 * Pow10(e - 1)

DecimalValue(s) ==
    LET RECURSIVE Sum(_)
        Sum(i) == IF i > Len(s) THEN 0
                  ELSE DigitVal(s[i]) * Pow10(Len(s) - i) + Sum(i + 1)
    IN  Sum(1)

IsDecimalOf(s, n) ==
    /\ s # <<>>
    /\ \A i \in 1..Len(s) : IsDigit(s[i])
    /\ Len(s) > 1 => s[1] # "0"
    /\ DecimalValue(s) = n

\* C18: IntegerMap on a non-negative int n and on the decimal string of n
\* gives the decimal string of n, on which IntegerMap gives it again;
\* IntegerMap fails on a negative int: the call fails, and the iteration
\* in which IntegerMap failed returns InvalidProperty naming the source key.
C18_IntegerLaw ==
    \A k \in MapperRules("IntegerMap") :
        LET v == src[k]
            r == IntegerMap(v)
            t == TargetOf(description.m, k)
        IN  /\ v.tag = "int" /\ v.n >= 0 =>
                 /\ r.ok
                 /\ r.val.tag = "str"
                 /\ IsDecimalOf(r.val.s, v.n)
                 /\ IntegerMap(r.val) = r
                 /\ Succeeded => t \in DOMAIN ret.res /\ ret.res[t] = r.val
            /\ v.tag = "str" /\ IsDecimalOf(v.s, DecimalValue(v.s)) =>
                 /\ r = [ok |-> TRUE, val |-> v]
                 /\ IntegerMap(IntV(DecimalValue(v.s))) = r
                 /\ Succeeded => t \in DOMAIN ret.res /\ ret.res[t] = v
            /\ v.tag = "int" /\ v.n < 0 =>
                 /\ ~r.ok
                 /\ Returned => ret.err # NoErr
                 /\ Returned /\ last = [loop |-> "translate", key |-> k] =>
                      ret = RetNil(NewInvalidProp(k))

\* the int 105 was translated to the string "105"
C18_Witness ==
    /\ Succeeded
    /\ "A" \in MapperRules("IntegerMap")
    /\ src["A"] = IntV(105)
    /\ ret.res = [a |-> StrV(<<"1", "0", "5">>)]

\* the letters of a string in lower case and in upper case
LowerChar(c) ==
    CASE c = "T" -> "t" [] c = "R" -> "r" [] c = "U" -> "u" [] c = "E" -> "e"
      [] c = "F" -> "f" [] c = "A" -> "a" [] c = "L" -> "l" [] c = "S" -> "s"
      [] OTHER -> c
UpperChar(c) ==
    CASE c = "t" -> "T" [] c = "r" -> "R" [] c = "u" -> "U" [] c = "e" -> "E"
      [] c = "f" -> "F" [] c = "a" -> "A" [] c = "l" -> "L" [] c = "s" -> "S"
      [] OTHER -> c
ToLower(s) == [i \in 1..Len(s) |-> LowerChar(s[i])]
ToUpper(s) == [i \in 1..Len(s) |-> UpperChar(s[i])]

TrueWord == <<"t", "r", "u", "e">>
FalseWord == <<"f", "a", "l", "s", "e">>

\* s is word written in lower case, in upper case, or in lower case after
\* an upper-case first letter
PlainCase(s, word) ==
    /\ ToLower(s) = word
    /\ \/ s = word
       \/ s = ToUpper(word)
       \/ s = [i \in 1..Len(word) |->
                 IF i = 1 THEN UpperChar(word[i]) ELSE word[i]]

\* the strings that stand for true and for false
SaysTrue(s) ==
    PlainCase(s, TrueWord) \/ s \in {<<"t">>, <<"T">>, <<"1">>}
SaysFalse(s) ==
    PlainCase(s, FalseWord) \/ s \in {<<"f">>, <<"F">>, <<"0">>}

\* what the call made of the value under k: it stored the value b under the
\* target name, or failed with InvalidProperty naming k
Accepted(k, b) ==
    /\ Succeeded
    /\ BoolMap(src[k]) = [ok |-> TRUE, val |-> b]
    /\ TargetOf(description.m, k) \in DOMAIN ret.res
    /\ ret.res[TargetOf(description.m, k)] = b
Rejected(k) ==
    /\ ~BoolMap(src[k]).ok
    /\ ret = RetNil(NewInvalidProp(k))

\* C19, as claimed: BoolMap returns a bool unchanged, accepts "true" and
\* "false" in every mix of upper and lower case letters and "T" and "F",
\* and fails on any other string.
C19_BoolAsClaimed ==
    Returned =>
    \A k \in MapperRules("BoolMap") :
        LET v == src[k] IN
        /\ v.tag = "bool" => Accepted(k, v)
        /\ v.tag = "str" /\ (ToLower(v.s) = TrueWord \/ v.s = <<"T">>) =>
             Accepted(k, BoolV(TRUE))
        /\ v.tag = "str" /\ (ToLower(v.s) = FalseWord \/ v.s = <<"F">>) =>
             Accepted(k, BoolV(FALSE))
        /\ v.tag = "str"
              /\ ToLower(v.s) \notin {TrueWord, FalseWord}
              /\ v.s \notin {<<"T">>, <<"F">>}
              => Rejected(k)

\* C19, amended: BoolMap returns a bool unchanged; it accepts "true" and
\* "false" written in lower case, in upper case or with an upper-case first
\* letter only, and "t", "T", "1", "f", "F", "0", and returns the boolean
\* they stand for; it fails on any other string, such as "maybe" or "tRUE".
C19_BoolLaw ==
    Returned =>
    \A k \in MapperRules("BoolMap") :
        LET v == src[k] IN
        /\ v.tag = "bool" => Accepted(k, v)
        /\ v.tag = "str" /\ SaysTrue(v.s) => Accepted(k, BoolV(TRUE))
        /\ v.tag = "str" /\ SaysFalse(v.s) => Accepted(k, BoolV(FALSE))
        /\ v.tag = "str" /\ ~SaysTrue(v.s) /\ ~SaysFalse(v.s) => Rejected(k)

\* the string "True" was translated to the boolean true
C19_Witness ==
    /\ Succeeded
    /\ "A" \in MapperRules("BoolMap")
    /\ src["A"] = StrV(<<"T", "r", "u", "e">>)
    /\ ret.res = [a |-> BoolV(TRUE)]

\* a description whose mandatory key "Y" no embedded map of the model has
MandatorySub ==
    Descr([X |-> Rename("x"), Y |-> Custom("", "StringMap", TRUE)])

\* C20: the first loop ends before the second begins: once a field is being
\* translated, every entry of the description has passed the mandatory
\* check; in a call in which a mandatory key is missing no MapFunc, ModFunc
\* or InsertFunc is called, no nested Translate is started and nothing is
\* stored, and the call returns from the first loop; a nested call makes
\* its mandatory check before it translates any field too.
C20_FailFast ==
    /\ pc \in {"translate", "insert"} \/ calls # <<>> \/ result # EmptyMap
          => MissingMandatory = {} /\ BadEntries = {}
    /\ MissingMandatory # {} =>
          /\ calls = <<>>
          /\ result = EmptyMap
          /\ pc \in {"start", "mandatory", "done"}
          /\ pc = "done" =>
                /\ last.loop = "mandatory"
                /\ ret.isNil
                /\ ret.err.kind \in {"MissingAttribute", "Internal"}
    /\ \A m \in SubMaps :
          Translate(m, MandatorySub) = {RetNil(NewMissingAttributeError("Y"))}

\* a call returned MissingAttribute for a missing mandatory key without
\* calling the MapFunc of the field that the source has
C20_Witness ==
    /\ pc = "done"
    /\ MissingMandatory = {"I"}
    /\ "A" \in CustomRules
    /\ calls = <<>>
    /\ result = EmptyMap
    /\ ret = RetNil(NewMissingAttributeError("I"))

\* the description is made of two Modify entries whose ModFunc writes the
\* same key of the result, and the source holds both keys with different
\* values
TwoModify ==
    /\ HasDescription
    /\ DOMAIN description.m = {"A", "B"}
    /\ \A k \in {"A", "B"} :
         /\ description.m[k].form = "Description"
         /\ description.m[k].Type = ModifyTranslation
         /\ description.m[k].ModFunc = "modSet"
    /\ {"A", "B"} \subseteq DOMAIN src
    /\ src["A"] # src["B"]

\* the keys of the entries whose ModFunc has been called, in order
ModCalls == SelectSeq(calls, LAMBDA c : c.fn = "ModFunc")

\* C21: with two Modify entries whose ModFunc writes different values to
\* the same key of the result, the value of that key is the one written by
\* the entry visited last, at every point of the second loop and in the
\* result returned, and both values are final values of the same call: the
\* call always succeeds, and the values that its results hold under the key
\* are the two values.
C21_ModifyOrder ==
    TwoModify =>
        /\ ModCalls # <<>> /\ pc # "written" =>
             /\ ModKey \in DOMAIN result
             /\ result[ModKey] = src[ModCalls[Len(ModCalls)].key]
        /\ Succeeded => ret.res = result
        /\ \A o \in Translate(src, description) :
             o.err = NoErr /\ DOMAIN o.res = {ModKey}
        /\ {o.res[ModKey] : o \in Translate(src, description)}
              = {src["A"], src["B"]}

\* the entry for "B" was visited before the entry for "A", and the result
\* holds the value of "A"
C21_Witness ==
    /\ Succeeded
    /\ TwoModify
    /\ ModCalls = << [fn |-> "ModFunc", key |-> "B"],
                     [fn |-> "ModFunc", key |-> "A"] >>
    /\ ret.res = [a |-> src["A"]]

\* what the third loop can make of the result of the second, one outcome
\* for every order in which the entries of the description are visited
Phase3Outcomes ==
    {StepRet(st) : st \in InsertLoop(src, description.m, phase2,
                                     DOMAIN description.m)}

\* the Insert entries name different targets, and no InsertFunc writes into
\* the result itself
IndependentInserts ==
    /\ \A k1, k2 \in RulesOf(InsertTranslation) :
          description.m[k1].TargetName = description.m[k2].TargetName
             => k1 = k2
    /\ \A k \in RulesOf(InsertTranslation) :
          description.m[k].InsertFunc # "insWrite"

\* C22, as claimed: the outcome of the third loop, the final result or the
\* failure, is the same for every order in which the entries are visited.
C22_InsertCommutes ==
    Phase3 => Cardinality(Phase3Outcomes) = 1

\* C22, amended: when the Insert entries name different targets and no
\* InsertFunc writes into the result itself, the third loop succeeds in
\* every order or fails in every order, with a nil map, and when it
\* succeeds the final result is the same in every order; the result that
\* the call returns is that one.
C22_InsertLaw ==
    Phase3 /\ IndependentInserts =>
        /\ \A o1, o2 \in Phase3Outcomes :
              /\ (o1.err = NoErr) = (o2.err = NoErr)
              /\ o1.err = NoErr => o1 = o2
              /\ o1.err # NoErr => o1.isNil
        /\ Returned => \E o \in Phase3Outcomes :
                          /\ (o.err = NoErr) = (ret.err = NoErr)
                          /\ o.err = NoErr => o = ret

\* two Insert entries with different targets were both called, on a result
\* that the second loop had left without either target
C22_Witness ==
    /\ Succeeded
    /\ IndependentInserts
    /\ InsertCalls = {"A", "I"}
    /\ DOMAIN phase2 \cap {"a", "b"} = {}
    /\ ret.res["a"] = StrV(<<"A">>)
    /\ ret.res["b"] = StrV(<<"I">>)

\* the errors with which the nested translation that the entry k asks for
\* can fail: the translation of the embedded map, or of the elements of the
\* array of maps
NestedErrors(k) ==
    LET sub == description.m[k].SubTranslation IN
    IF k \in NestedRules /\ src[k].tag = "map"
    THEN {o.err : o \in Translate(src[k].m, sub)} \ {NoErr}
    ELSE IF k \in ArrayRules /\ Decode(src[k]).ok
    THEN {o.err : o \in TranslateAll(Decode(src[k]).maps, sub)} \ {NoErr}
    ELSE {}

\* the maps embedded under the key k of the source
EmbeddedIn(k) ==
    IF src[k].tag = "map" THEN {src[k].m}
    ELSE IF src[k].tag = "arr"
    THEN {src[k].a[i] : i \in 1..Len(src[k].a)}
    ELSE {}

\* the errors of Translate(s, d)
ErrorsOf(s, d) == {o.err : o \in Translate(s, d)}

\* the map m embedded twice, as a map in a map and as an element of an
\* array in a map, and the descriptions that translate it with sd
EmbeddedMap(m) == [B |-> MapV([B |-> MapV(m)])]
EmbeddedElem(m) == [B |-> MapV([B |-> ArrV(<<m, m>>)])]
Embedding(inner) == Descr([B |-> Nested("b", Descr([B |-> inner]))])

\* C23: when the translation of the embedded map of a Map entry, or of an
\* element of the array of a MapArray entry, fails with the error e, the
\* enclosing call returns e itself, naming the field of the embedded map,
\* with a nil map, and stores nothing under the target name of the entry;
\* so does every enclosing call, two levels up as well.
C23_Propagation ==
    \A k \in NestedRules \cup ArrayRules :
        last = [loop |-> "translate", key |-> k] =>
            /\ NestedErrors(k) # {} =>
                  /\ pc = "done"
                  /\ ret.isNil
                  /\ ret.err \in NestedErrors(k)
                  /\ ~OverWritten(k) =>
                        TargetOf(description.m, k) \notin DOMAIN result
            /\ \A m \in EmbeddedIn(k) :
                  LET sd == description.m[k].SubTranslation
                      asMap == Translate(EmbeddedMap(m),
                                         Embedding(Nested("", sd)))
                      asElem == Translate(EmbeddedElem(m),
                                          Embedding(NestedArray("", sd)))
                  IN  /\ {o.err : o \in asMap} = ErrorsOf(m, sd)
                      /\ {o.err : o \in asElem} = ErrorsOf(m, sd)
                      /\ \A o \in asMap \cup asElem : o.err # NoErr => o.isNil

\* the second element of an array failed on its field "X", after another
\* field had been translated: the call returned InvalidProperty naming "X"
C23_Witness ==
    /\ pc = "done"
    /\ last = [loop |-> "translate", key |-> "B"]
    /\ "B" \in ArrayRules
    /\ src["B"].tag = "arr"
    /\ Len(src["B"].a) = 2
    /\ src["B"].a[1] = [X |-> StrV(<<"x">>)]
    /\ src["B"].a[2] = [X |-> IntV(1)]
    /\ result # EmptyMap
    /\ ret = RetNil(NewInvalidProp("X"))

\* every Description of the description names its target, none is a Modify
\* entry, and no InsertFunc writes into the result itself
ExplicitTargets ==
    \A k \in Rules :
        /\ description.m[k].TargetName # ""
        /\ description.m[k].Type # ModifyTranslation
        /\ description.m[k].InsertFunc # "insWrite"

\* the target names of the string, Custom, Map and MapArray entries whose
\* key the source has, and the target names of the Insert entries
ProducedKeys ==
    {TargetOf(description.m, k) :
        k \in StringRules \cup NestedRules \cup ArrayRules
               \cup {c \in RulesOf(CustomTranslation) : c \in DOMAIN src}}
    \cup {description.m[k].TargetName : k \in RulesOf(InsertTranslation)}

\* C24, as claimed: in every successful call whose Descriptions all name
\* their target, without a Modify entry and without an InsertFunc that
\* writes into the result, the keys of the result are exactly the target
\* names of the evaluated string, Custom, Map and MapArray entries and of
\* the Insert entries.
C24_KeysAsClaimed ==
    Succeeded /\ ExplicitTargets => DOMAIN ret.res = ProducedKeys

\* C24: the same, for a call with a description that is not nil (with a nil
\* description the result is the source, with the keys of the source).
C24_KeySet ==
    /\ Succeeded /\ HasDescription /\ ExplicitTargets =>
          DOMAIN ret.res = ProducedKeys
    /\ Succeeded /\ ~HasDescription => DOMAIN ret.res = DOMAIN src

\* a call succeeded on a source with three keys: two renamed, one without
\* an entry, and an Insert entry for a key that the source lacks
C24_Witness ==
    /\ Succeeded
    /\ HasDescription
    /\ ExplicitTargets
    /\ DOMAIN src = {"A", "B", "C"}
    /\ DOMAIN description.m = {"A", "B", "I"}
    /\ description.m["I"].Type = InsertTranslation
    /\ DOMAIN ret.res = {"C", "a", "b"}
    /\ ProducedKeys = {"C", "a", "b"}

\* a description made of "name": "newName", Custom, Map and MapArray
\* entries only, whose target names differ from one another, at every level
RECURSIVE DistinctTargets(_)
DistinctTargets(descr) ==
    \/ descr.isNil
    \/ /\ \A k \in DOMAIN descr.m :
              \/ descr.m[k].form = "string"
              \/ /\ descr.m[k].form = "Description"
                 /\ descr.m[k].Type \in {CustomTranslation, MapTranslation,
                                         MapArrayTranslation}
       /\ \A k1, k2 \in DOMAIN descr.m :
              TargetOf(descr.m, k1) = TargetOf(descr.m, k2) => k1 = k2
       /\ \A k \in DOMAIN descr.m :
              /\ descr.m[k].form = "Description"
              /\ descr.m[k].Type \in {MapTranslation, MapArrayTranslation}
              => DistinctTargets(descr.m[k].SubTranslation)

\* C25: for a description of string, Custom, Map and MapArray entries with
\* distinct target names at every level, the call succeeds in every order of
\* the maps or fails in every order, and when it succeeds its result is the
\* same in every order; the call that was made returned that outcome.  (The
\* error of a failing call can name a different field in another order.)
C25_Determinism ==
    DistinctTargets(description) =>
        LET outcomes == Translate(src, description) IN
        /\ \A o1, o2 \in outcomes :
              /\ (o1.err = NoErr) = (o2.err = NoErr)
              /\ o1.err = NoErr => o1 = o2
        /\ Returned =>
              \E o \in outcomes :
                  /\ (o.err = NoErr) = (ret.err = NoErr)
                  /\ ret.err = NoErr => o = ret

\* a call on a source with a string field and an embedded map succeeded
\* with both translated, the only result of that call in any order
C25_Witness ==
    /\ Succeeded
    /\ HasDescription
    /\ DistinctTargets(description)
    /\ "A" \in StringRules
    /\ "B" \in NestedRules
    /\ ~description.m["B"].SubTranslation.isNil
    /\ DOMAIN ret.res = {"a", "B"}
    /\ Translate(src, description) = {ret}

\* a call failed on one of two fields that both fail: in another order the
\* error names the other field
C25_ErrorNameDiffers ==
    /\ pc = "done"
    /\ DistinctTargets(description)
    /\ ret.err = NewInvalidProp("A")
    /\ \E o \in Translate(src, description) : o.err = NewInvalidProp("B")

====
